---------------------------- MODULE Spec2Model ----------------------------
(***************************************************************************)
(* A model of lukechampine/upnp: the SOAP action engine (soap.go), the IGD *)
(* client and service resolver (igd.go), the description fetcher and SSDP  *)
(* discovery (device.go), and the public wrapper (upnp.go), together with  *)
(* the router and the network they talk to.                                *)
(***************************************************************************)
EXTENDS Integers, Sequences, FiniteSets, TLC

VARIABLES
    soapIn,     \* the HTTP exchange handed to performSOAPAction: [reply, respType]
    soapOut,    \* what the call returned: [done, op, err, resp], and result, the
                \* value of IsForwarded
    table,      \* the router's port-mapping table: key -> entry
    quirk,      \* how this router answers a delete of a missing entry
    last,       \* the most recent call on the Device and what it returned
    prev,       \* "Forward" or "Clear" when the call before the last one was that
                \* operation on the same port and protocol and returned no error
    net,        \* the network: what the server behind each URL answers to a GET
    conn,       \* what Connect returned: [done, url, from, err, dev, clients],
                \* and root, the RootDevice its DeviceByURL returned
    ssdp,       \* the SSDP run: [pc, sent, nread, seen, locs, err]
    rx,         \* the datagrams and read errors the run received, in order
    src,        \* for each location of ssdp.locs, the index in rx it came from
    disc,       \* what Discover returned: [done, err, devices]
    strm,       \* streaming discovery: doSSDP, doDiscoverAll, its tasks, Discover
    cx          \* operations in flight and the contexts that were passed to them

vars == <<soapIn, soapOut, table, quirk, last, prev, net, conn, ssdp, rx, src, disc,
          strm, cx>>

soapVars == <<soapIn, soapOut>>
devVars == <<table, quirk, last, prev>>
resVars == <<net, conn>>
ssdpVars == <<ssdp, rx, src>>
procVars == <<strm, cx>>

(***************************************************************************)
(* Strings.  A Go string whose characters matter (substring search,        *)
(* lexicographic comparison) is kept as a TLA+ string in the state and     *)
(* looked up here as its sequence of ASCII codes.                          *)
(***************************************************************************)
Text(s) ==
    CASE s = "" -> <<>>
      [] s = "urn:schemas-upnp-org:service:WANPPPConnection:1" -> <<117, 114, 110, 58, 115, 99, 104, 101, 109, 97, 115, 45, 117, 112, 110, 112, 45, 111, 114, 103, 58, 115, 101, 114, 118, 105, 99, 101, 58, 87, 65, 78, 80, 80, 80, 67, 111, 110, 110, 101, 99, 116, 105, 111, 110, 58, 49>>
      [] s = "urn:schemas-upnp-org:service:WANIPConnection:1" -> <<117, 114, 110, 58, 115, 99, 104, 101, 109, 97, 115, 45, 117, 112, 110, 112, 45, 111, 114, 103, 58, 115, 101, 114, 118, 105, 99, 101, 58, 87, 65, 78, 73, 80, 67, 111, 110, 110, 101, 99, 116, 105, 111, 110, 58, 49>>
      [] s = "urn:schemas-upnp-org:service:WANIPConnection:2" -> <<117, 114, 110, 58, 115, 99, 104, 101, 109, 97, 115, 45, 117, 112, 110, 112, 45, 111, 114, 103, 58, 115, 101, 114, 118, 105, 99, 101, 58, 87, 65, 78, 73, 80, 67, 111, 110, 110, 101, 99, 116, 105, 111, 110, 58, 50>>
      [] s = "urn:schemas-upnp-org:service:WANIPv6FirewallControl:1" -> <<117, 114, 110, 58, 115, 99, 104, 101, 109, 97, 115, 45, 117, 112, 110, 112, 45, 111, 114, 103, 58, 115, 101, 114, 118, 105, 99, 101, 58, 87, 65, 78, 73, 80, 118, 54, 70, 105, 114, 101, 119, 97, 108, 108, 67, 111, 110, 116, 114, 111, 108, 58, 49>>
      [] s = "urn:schemas-upnp-org:service:WANCommonInterfaceConfig:1" -> <<117, 114, 110, 58, 115, 99, 104, 101, 109, 97, 115, 45, 117, 112, 110, 112, 45, 111, 114, 103, 58, 115, 101, 114, 118, 105, 99, 101, 58, 87, 65, 78, 67, 111, 109, 109, 111, 110, 73, 110, 116, 101, 114, 102, 97, 99, 101, 67, 111, 110, 102, 105, 103, 58, 49>>
      [] s = "WANIP" -> <<87, 65, 78, 73, 80>>
      [] s = "NoSuchEntryInArray" -> <<78, 111, 83, 117, 99, 104, 69, 110, 116, 114, 121, 73, 110, 65, 114, 114, 97, 121>>
      [] s = "ConflictInMappingEntry" -> <<67, 111, 110, 102, 108, 105, 99, 116, 73, 110, 77, 97, 112, 112, 105, 110, 103, 69, 110, 116, 114, 121>>
      [] s = "Action Failed" -> <<65, 99, 116, 105, 111, 110, 32, 70, 97, 105, 108, 101, 100>>
      [] s = "UPnPError" -> <<85, 80, 110, 80, 69, 114, 114, 111, 114>>
      [] s = "714" -> <<55, 49, 52>>
      [] s = "718" -> <<55, 49, 56>>
      [] s = "501" -> <<53, 48, 49>>
      [] s = "invalid response body: " -> <<105, 110, 118, 97, 108, 105, 100, 32, 114, 101, 115, 112, 111, 110, 115, 101, 32, 98, 111, 100, 121, 58, 32>>
      [] s = "SOAP fault: " -> <<83, 79, 65, 80, 32, 102, 97, 117, 108, 116, 58, 32>>
      [] s = "UPnP error: " -> <<85, 80, 110, 80, 32, 101, 114, 114, 111, 114, 58, 32>>
      [] s = " (error code " -> <<32, 40, 101, 114, 114, 111, 114, 32, 99, 111, 100, 101, 32>>
      [] s = ")" -> <<41>>
      [] s = "<s:Envelope>" -> <<60, 115, 58, 69, 110, 118, 101, 108, 111, 112, 101, 62>>
      [] s = "</s:Envelope>" -> <<60, 47, 115, 58, 69, 110, 118, 101, 108, 111, 112, 101, 62>>
      [] s = "Invalid Args" -> <<73, 110, 118, 97, 108, 105, 100, 32, 65, 114, 103, 115>>
      [] s = "402" -> <<52, 48, 50>>
      [] s = "EOF" -> <<69, 79, 70>>
      [] s = "expected element <Envelope> in name space http://schemas.xmlsoap.org/soap/envelope/" -> <<101, 120, 112, 101, 99, 116, 101, 100, 32, 101, 108, 101, 109, 101, 110, 116, 32, 60, 69, 110, 118, 101, 108, 111, 112, 101, 62, 32, 105, 110, 32, 110, 97, 109, 101, 32, 115, 112, 97, 99, 101, 32, 104, 116, 116, 112, 58, 47, 47, 115, 99, 104, 101, 109, 97, 115, 46, 120, 109, 108, 115, 111, 97, 112, 46, 111, 114, 103, 47, 115, 111, 97, 112, 47, 101, 110, 118, 101, 108, 111, 112, 101, 47>>
      [] s = "strconv.ParseUint: invalid syntax" -> <<115, 116, 114, 99, 111, 110, 118, 46, 80, 97, 114, 115, 101, 85, 105, 110, 116, 58, 32, 105, 110, 118, 97, 108, 105, 100, 32, 115, 121, 110, 116, 97, 120>>
      [] s = "strconv.ParseBool: invalid syntax" -> <<115, 116, 114, 99, 111, 110, 118, 46, 80, 97, 114, 115, 101, 66, 111, 111, 108, 58, 32, 105, 110, 118, 97, 108, 105, 100, 32, 115, 121, 110, 116, 97, 120>>
      [] s = "connection refused" -> <<99, 111, 110, 110, 101, 99, 116, 105, 111, 110, 32, 114, 101, 102, 117, 115, 101, 100>>
      [] s = "Not Found" -> <<78, 111, 116, 32, 70, 111, 117, 110, 100>>

RECURSIVE Flatten(_)
\* the text of a string built by concatenation / Sprintf, kept as its pieces
Flatten(pieces) ==
    IF pieces = <<>> THEN <<>>
    ELSE Text(Head(pieces)) \o Flatten(Tail(pieces))

\* strings.Contains on character sequences
Contains(s, sub) ==
    \E i \in 0..(Len(s) - Len(sub)) : SubSeq(s, i + 1, i + Len(sub)) = sub

\* Go's < on strings: bytewise lexicographic
StringLess(s, t) ==
    \/ /\ Len(s) < Len(t)
       /\ SubSeq(t, 1, Len(s)) = s
    \/ \E i \in 1..Len(s) :
          /\ i <= Len(t)
          /\ SubSeq(s, 1, i - 1) = SubSeq(t, 1, i - 1)
          /\ s[i] < t[i]

(***************************************************************************)
(* Errors.  A Go error is modelled by the pieces of its message; nil is    *)
(* the empty sequence.                                                     *)
(***************************************************************************)
NoErr == <<>>
IsErr(e) == e # NoErr
ErrorText(e) == Flatten(e)

(***************************************************************************)
(* soap.go: the response envelope and its decoding.                        *)
(***************************************************************************)
SoapNS == "http://schemas.xmlsoap.org/soap/envelope/"

\* respEnvelope.Body.Fault: a nil pointer is present = FALSE; Detail and
\* UPnPError are pointers too.
NoFault ==
    [present |-> FALSE, faultstring |-> "", detail |-> FALSE, upnp |-> FALSE,
     code |-> "", desc |-> ""]

SoapFault(fs) ==
    [present |-> TRUE, faultstring |-> fs, detail |-> FALSE, upnp |-> FALSE,
     code |-> "", desc |-> ""]

DetailFault(fs) ==
    [present |-> TRUE, faultstring |-> fs, detail |-> TRUE, upnp |-> FALSE,
     code |-> "", desc |-> ""]

UPnPFault(code, desc) ==
    [present |-> TRUE, faultstring |-> "UPnPError", detail |-> TRUE, upnp |-> TRUE,
     code |-> code, desc |-> desc]

\* The response structures of igd.go, as one record; a call owns the fields of
\* its own response type.
ZeroResp ==
    [NewInternalPort |-> 0, NewInternalClient |-> "", NewEnabled |-> FALSE,
     NewPortMappingDescription |-> "", NewLeaseDuration |-> "",
     NewExternalIPAddress |-> ""]

RespFields(respType) ==
    CASE respType = "GetSpecificPortMappingEntryResponse" ->
            {"NewInternalPort", "NewInternalClient", "NewEnabled",
             "NewPortMappingDescription", "NewLeaseDuration"}
      [] respType = "GetExternalIPAddressResponse" -> {"NewExternalIPAddress"}
      [] OTHER -> {}

\* encoding/xml's conversion of element text to a uint16 field
\* (empty text is zero; anything else goes through strconv.ParseUint(s, 10, 16))
ParseUint16(s) ==
    CASE s = "" -> [ok |-> TRUE, v |-> 0]
      [] s = "0" -> [ok |-> TRUE, v |-> 0]
      [] s = "15000" -> [ok |-> TRUE, v |-> 15000]
      [] s = "15001" -> [ok |-> TRUE, v |-> 15001]
      [] OTHER -> [ok |-> FALSE, v |-> 0]

\* encoding/xml's conversion of element text to a bool field (strconv.ParseBool)
ParseBool(s) ==
    CASE s \in {"1", "t", "T", "TRUE", "true", "True"} -> [ok |-> TRUE, v |-> TRUE]
      [] s \in {"0", "f", "F", "FALSE", "false", "False"} -> [ok |-> TRUE, v |-> FALSE]
      [] OTHER -> [ok |-> FALSE, v |-> FALSE]

\* xml.Unmarshal storing one child element <name>text</name> into resp.
\* An element that names no field of the structure is skipped.
SetField(resp, respType, name, text) ==
    IF name \notin RespFields(respType) THEN [err |-> NoErr, resp |-> resp]
    ELSE IF name = "NewInternalPort" THEN
        LET p == ParseUint16(text) IN
        IF p.ok THEN [err |-> NoErr, resp |-> [resp EXCEPT !.NewInternalPort = p.v]]
        ELSE [err |-> <<"strconv.ParseUint: invalid syntax">>, resp |-> resp]
    ELSE IF name = "NewEnabled" THEN
        LET b == ParseBool(text) IN
        IF b.ok THEN [err |-> NoErr, resp |-> [resp EXCEPT !.NewEnabled = b.v]]
        ELSE [err |-> <<"strconv.ParseBool: invalid syntax">>, resp |-> resp]
    ELSE [err |-> NoErr, resp |-> [resp EXCEPT ![name] = text]]

RECURSIVE UnmarshalFields(_, _, _)
\* the children of the action-response element, in document order; the first
\* field that fails to convert ends the decoding with the fields stored so far
UnmarshalFields(resp, respType, fields) ==
    IF fields = <<>> THEN [err |-> NoErr, resp |-> resp]
    ELSE LET r == SetField(resp, respType, Head(fields)[1], Head(fields)[2]) IN
         IF IsErr(r.err) THEN r
         ELSE UnmarshalFields(r.resp, respType, Tail(fields))

\* xml.Unmarshal(responseEnv.Body.RawAction, resp): RawAction is the inner XML
\* of Body; without any element in it the decoder reports EOF.
xmlUnmarshal(rawAction, respType) ==
    IF ~rawAction.hasAction THEN [err |-> <<"EOF">>, resp |-> ZeroResp]
    ELSE UnmarshalFields(ZeroResp, respType, rawAction.fields)

\* decoder.Decode(&responseEnv): the body must be XML whose root is Envelope in
\* the SOAP envelope name space (respEnvelope.XMLName).
DecodeEnvelope(reply) ==
    IF ~reply.xml THEN
        [err |-> <<"EOF">>, Fault |-> NoFault,
         RawAction |-> [hasAction |-> FALSE, fields |-> <<>>]]
    ELSE IF reply.ns # SoapNS THEN
        [err |-> <<"expected element <Envelope> in name space http://schemas.xmlsoap.org/soap/envelope/">>,
         Fault |-> NoFault, RawAction |-> [hasAction |-> FALSE, fields |-> <<>>]]
    ELSE
        [err |-> NoErr, Fault |-> reply.fault,
         RawAction |-> [hasAction |-> reply.hasAction, fields |-> reply.fields]]

\* The body of an HTTP response as text: what ioutil.ReadAll would give.
RawBody(reply) ==
    IF ~reply.xml THEN <<reply.text>>
    ELSE <<"<s:Envelope>", reply.fault.faultstring, reply.fault.code,
           reply.fault.desc, "</s:Envelope>">>

\* soap.go 79-96: performSOAPAction once the HTTP response is in hand.
\* respType = "nil" is a nil resp.  The response's status is never read.
decodeResponseMutantNoCode(reply, respType) ==
    LET env == DecodeEnvelope(reply) IN
    IF IsErr(env.err) THEN
        [err |-> <<"invalid response body: ">> \o env.err, resp |-> ZeroResp]
    ELSE IF env.Fault.present THEN
        IF ~env.Fault.detail \/ ~env.Fault.upnp THEN
            [err |-> <<"SOAP fault: ", env.Fault.faultstring>>, resp |-> ZeroResp]
        ELSE [err |-> <<"UPnP error: ", env.Fault.desc>>, resp |-> ZeroResp]
    ELSE IF respType # "nil" THEN
        LET u == xmlUnmarshal(env.RawAction, respType) IN
        IF IsErr(u.err) THEN
            [err |-> <<"invalid response body: ">> \o u.err, resp |-> u.resp]
        ELSE [err |-> NoErr, resp |-> u.resp]
    ELSE [err |-> NoErr, resp |-> ZeroResp]

decodeResponseMutantNilFirst(reply, respType) ==
    LET env == DecodeEnvelope(reply) IN
    IF IsErr(env.err) THEN
        [err |-> <<"invalid response body: ">> \o env.err, resp |-> ZeroResp]
    ELSE IF respType = "nil" THEN [err |-> NoErr, resp |-> ZeroResp]
    ELSE IF env.Fault.present THEN
        IF ~env.Fault.detail \/ ~env.Fault.upnp THEN
            [err |-> <<"SOAP fault: ", env.Fault.faultstring>>, resp |-> ZeroResp]
        ELSE
            [err |-> <<"UPnP error: ", env.Fault.desc, " (error code ",
                       env.Fault.code, ")">>,
             resp |-> ZeroResp]
    ELSE
        LET u == xmlUnmarshal(env.RawAction, respType) IN
        IF IsErr(u.err) THEN
            [err |-> <<"invalid response body: ">> \o u.err, resp |-> u.resp]
        ELSE [err |-> NoErr, resp |-> u.resp]

decodeResponse(reply, respType) ==
    LET env == DecodeEnvelope(reply) IN
    IF IsErr(env.err) THEN
        [err |-> <<"invalid response body: ">> \o env.err, resp |-> ZeroResp]
    ELSE IF env.Fault.present THEN
        IF ~env.Fault.detail \/ ~env.Fault.upnp THEN
            [err |-> <<"SOAP fault: ", env.Fault.faultstring>>, resp |-> ZeroResp]
        ELSE
            [err |-> <<"UPnP error: ", env.Fault.desc, " (error code ",
                       env.Fault.code, ")">>,
             resp |-> ZeroResp]
    ELSE IF respType # "nil" THEN
        LET u == xmlUnmarshal(env.RawAction, respType) IN
        IF IsErr(u.err) THEN
            [err |-> <<"invalid response body: ">> \o u.err, resp |-> u.resp]
        ELSE [err |-> NoErr, resp |-> u.resp]
    ELSE [err |-> NoErr, resp |-> ZeroResp]

\* soap.go 66-97: performSOAPAction, from the HTTP exchange on.  reply.net =
\* FALSE is http.DefaultClient.Do failing.
performSOAPActionMutantStatus(reply, respType) ==
    IF ~reply.net THEN [err |-> <<"connection refused">>, resp |-> ZeroResp]
    ELSE IF reply.status # 200 THEN [err |-> RawBody(reply), resp |-> ZeroResp]
    ELSE decodeResponse(reply, respType)

performSOAPAction(reply, respType) ==
    IF ~reply.net THEN [err |-> <<"connection refused">>, resp |-> ZeroResp]
    ELSE decodeResponse(reply, respType)

(***************************************************************************)
(* The HTTP exchanges a server can produce, for the SOAP engine on its own.*)
(***************************************************************************)
MaxFields == 3

Faults ==
    { NoFault, SoapFault("UPnPError"), SoapFault("NoSuchEntryInArray"),
      DetailFault("UPnPError"),
      UPnPFault("714", "NoSuchEntryInArray"),
      UPnPFault("718", "ConflictInMappingEntry"),
      UPnPFault("501", "Action Failed"),
      UPnPFault("", "") }

FieldElems ==
    { <<"NewInternalClient", "192.168.1.2">>, <<"NewEnabled", "1">>,
      <<"NewEnabled", "yes">>, <<"NewInternalPort", "15000">>,
      <<"NewInternalPort", "65536">>, <<"NewExternalIPAddress", "203.0.113.7">> }

FieldSeqs == UNION { [1..n -> FieldElems] : n \in 0..MaxFields }

Statuses == {200, 404, 500}

NetError ==
    [net |-> FALSE, status |-> 0, xml |-> FALSE, text |-> "", ns |-> "",
     fault |-> NoFault, hasAction |-> FALSE, fields |-> <<>>]

TextReply(status, text) ==
    [net |-> TRUE, status |-> status, xml |-> FALSE, text |-> text, ns |-> "",
     fault |-> NoFault, hasAction |-> FALSE, fields |-> <<>>]

EnvelopeReply(status, ns, fault, hasAction, fields) ==
    [net |-> TRUE, status |-> status, xml |-> TRUE, text |-> "", ns |-> ns,
     fault |-> fault, hasAction |-> hasAction, fields |-> fields]

Replies ==
    {NetError}
    \cup { TextReply(st, "Not Found") : st \in Statuses }
    \cup { EnvelopeReply(st, ns, f, FALSE, <<>>) :
               st \in Statuses, ns \in {SoapNS, ""}, f \in Faults }
    \cup { EnvelopeReply(st, SoapNS, f, TRUE, fs) :
               st \in Statuses, f \in Faults, fs \in FieldSeqs }

RespTypes ==
    {"nil", "GetSpecificPortMappingEntryResponse", "GetExternalIPAddressResponse"}

NoCall == [reply |-> NetError, respType |-> "nil"]
NoResult == [done |-> FALSE, op |-> "", err |-> NoErr, resp |-> ZeroResp, result |-> FALSE]

\* one invocation of the SOAP engine against one HTTP exchange
Invoke ==
    /\ ~soapOut.done
    /\ \E reply \in Replies, respType \in RespTypes :
          LET r == performSOAPAction(reply, respType) IN
          /\ soapIn' = [reply |-> reply, respType |-> respType]
          /\ soapOut' = [done |-> TRUE, op |-> "performSOAPAction", err |-> r.err,
                         resp |-> r.resp, result |-> FALSE]
          /\ UNCHANGED <<devVars, resVars, ssdpVars, disc, procVars>>

(***************************************************************************)
(* igd.go / upnp.go: the requests of the bound Device, and the router that *)
(* answers them.                                                           *)
(***************************************************************************)
Ports == {15000, 15001}
Protos == {"TCP", "UDP"}
Keys == Ports \X Protos

internalIP == "192.168.1.2"    \* Device.internalIP of the Device under test
otherIP == "192.168.1.3"       \* another host of the same network

\* encoding/xml's text of a uint16 and of a bool in a request
FormatUint(n) ==
    CASE n = 0 -> "0"
      [] n = 15000 -> "15000"
      [] n = 15001 -> "15001"

FormatBool(b) == IF b THEN "true" ELSE "false"

\* upnp.go 24-34: the AddPortMappingRequest Forward builds, as encodeRequest
\* emits it (every field, in declaration order)
AddPortMappingRequestMutantDisabled(port, proto, desc) ==
    << <<"NewRemoteHost", "">>,
       <<"NewExternalPort", FormatUint(port)>>,
       <<"NewProtocol", proto>>,
       <<"NewInternalPort", FormatUint(port)>>,
       <<"NewInternalClient", internalIP>>,
       <<"NewEnabled", FormatBool(FALSE)>>,
       <<"NewPortMappingDescription", desc>>,
       <<"NewLeaseDuration", FormatUint(0)>> >>

AddPortMappingRequest(port, proto, desc) ==
    << <<"NewRemoteHost", "">>,
       <<"NewExternalPort", FormatUint(port)>>,
       <<"NewProtocol", proto>>,
       <<"NewInternalPort", FormatUint(port)>>,
       <<"NewInternalClient", internalIP>>,
       <<"NewEnabled", FormatBool(TRUE)>>,
       <<"NewPortMappingDescription", desc>>,
       <<"NewLeaseDuration", FormatUint(0)>> >>

\* upnp.go 38-41 and 47-50: the requests of IsForwarded and of Clear
PortProtoRequest(port, proto) ==
    << <<"NewRemoteHost", "">>,
       <<"NewExternalPort", FormatUint(port)>>,
       <<"NewProtocol", proto>> >>

\* upnp.go 42: what IsForwarded returns, the error of the query dropped
IsForwardedResult(resp) ==
    resp.NewEnabled /\ resp.NewInternalClient = internalIP

\* upnp.go 51-54: the error Clear returns
ClearErrMutantKeep(err) == err

ClearErr(err) ==
    IF IsErr(err) /\ Contains(ErrorText(err), Text("NoSuchEntryInArray"))
    THEN NoErr
    ELSE err

(***************************************************************************)
(* The router: a faithful port-mapping table behind the IGD actions.       *)
(***************************************************************************)
NoEntry == [present |-> FALSE, client |-> "", enabled |-> FALSE, port |-> 0, desc |-> ""]

Entry(client, enabled, port, desc) ==
    [present |-> TRUE, client |-> client, enabled |-> enabled, port |-> port, desc |-> desc]

\* the value of the element named name in a request (the router's parser)
Field(fields, name) ==
    LET i == CHOOSE i \in 1..Len(fields) : fields[i][1] = name IN fields[i][2]

RouterUint(s) == CHOOSE n \in Ports \cup {0} : FormatUint(n) = s
RouterBool(s) == s \in {"1", "true", "yes"}     \* the UPnP boolean
RouterKey(fields) == <<RouterUint(Field(fields, "NewExternalPort")), Field(fields, "NewProtocol")>>

OkReply(fields) == EnvelopeReply(200, SoapNS, NoFault, TRUE, fields)
FaultReply(code, desc) == EnvelopeReply(500, SoapNS, UPnPFault(code, desc), FALSE, <<>>)

\* how routers answer a DeletePortMapping that names no entry of the table
Quirks == {"714", "501", "ok"}

MissingReply(q) ==
    CASE q = "714" -> FaultReply("714", "NoSuchEntryInArray")
      [] q = "501" -> FaultReply("501", "Action Failed")
      [] q = "ok" -> OkReply(<<>>)

\* AddPortMapping: the router stores the mapping, or refuses to replace a
\* mapping that belongs to another host
RouterAdd(t, fields, accept) ==
    LET k == RouterKey(fields) IN
    IF accept THEN
        [table |-> [t EXCEPT ![k] =
                        Entry(Field(fields, "NewInternalClient"),
                              RouterBool(Field(fields, "NewEnabled")),
                              RouterUint(Field(fields, "NewInternalPort")),
                              Field(fields, "NewPortMappingDescription"))],
         reply |-> OkReply(<<>>)]
    ELSE [table |-> t, reply |-> FaultReply("718", "ConflictInMappingEntry")]

RouterDelete(t, q, fields) ==
    LET k == RouterKey(fields) IN
    IF t[k].present THEN [table |-> [t EXCEPT ![k] = NoEntry], reply |-> OkReply(<<>>)]
    ELSE [table |-> t, reply |-> MissingReply(q)]

RouterGet(t, fields) ==
    LET k == RouterKey(fields) IN
    IF t[k].present THEN
        OkReply(<< <<"NewInternalPort", FormatUint(t[k].port)>>,
                   <<"NewInternalClient", t[k].client>>,
                   <<"NewEnabled", IF t[k].enabled THEN "1" ELSE "0">>,
                   <<"NewPortMappingDescription", t[k].desc>>,
                   <<"NewLeaseDuration", "0">> >>)
    ELSE FaultReply("714", "NoSuchEntryInArray")

MaxPre == 1     \* mappings the table holds before the first call

PreEntries(k) ==
    { Entry(internalIP, TRUE, k[1], "test"), Entry(otherIP, TRUE, k[1], "old"),
      Entry(internalIP, FALSE, k[1], "old") }

Tables ==
    { t \in [Keys -> UNION { PreEntries(k) : k \in Keys } \cup {NoEntry}] :
        /\ \A k \in Keys : t[k].present => t[k] \in PreEntries(k)
        /\ Cardinality({ k \in Keys : t[k].present }) <= MaxPre }

NoCallYet ==
    [op |-> "none", port |-> 0, proto |-> "", answered |-> FALSE, had |-> FALSE,
     err |-> NoErr, result |-> FALSE]

CallDone(op, port, proto, reply, had, err, result) ==
    /\ last' = [op |-> op, port |-> port, proto |-> proto, answered |-> reply.net,
                had |-> had, err |-> err, result |-> result]
    /\ prev' = IF /\ last.op \in {"Forward", "Clear"}
                   /\ ~IsErr(last.err)
                   /\ last.port = port /\ last.proto = proto
                THEN last.op
                ELSE "other"

\* upnp.go 24-34, igd.go 56-58: Forward
Forward(port, proto, desc) ==
    LET fields == AddPortMappingRequest(port, proto, desc)
        k == <<port, proto>>
    IN
    \E outcome \in {"lost", "accept", "refuse"} :
        /\ outcome = "refuse" => (table[k].present /\ table[k].client # internalIP)
        /\ LET r == IF outcome = "lost" THEN [table |-> table, reply |-> NetError]
                    ELSE RouterAdd(table, fields, outcome = "accept")
               res == performSOAPAction(r.reply, "nil")
           IN
           /\ table' = r.table
           /\ CallDone("Forward", port, proto, r.reply, table[k].present, res.err, FALSE)
        /\ UNCHANGED <<quirk, soapVars, resVars, ssdpVars, disc, procVars>>

\* upnp.go 37-43, igd.go 51-54: IsForwarded
IsForwarded(port, proto) ==
    LET fields == PortProtoRequest(port, proto)
        k == <<port, proto>>
    IN
    \E lost \in BOOLEAN :
        LET reply == IF lost THEN NetError ELSE RouterGet(table, fields)
            res == performSOAPAction(reply, "GetSpecificPortMappingEntryResponse")
        IN
        /\ CallDone("IsForwarded", port, proto, reply, table[k].present, res.err,
                    IsForwardedResult(res.resp))
        /\ UNCHANGED <<table, quirk, soapVars, resVars, ssdpVars, disc, procVars>>

\* upnp.go 46-55, igd.go 60-62: Clear
Clear(port, proto) ==
    LET fields == PortProtoRequest(port, proto)
        k == <<port, proto>>
    IN
    \E lost \in BOOLEAN :
        LET r == IF lost THEN [table |-> table, reply |-> NetError]
                 ELSE RouterDelete(table, quirk, fields)
            res == performSOAPAction(r.reply, "nil")
        IN
        /\ table' = r.table
        /\ CallDone("Clear", port, proto, r.reply, table[k].present, ClearErr(res.err), FALSE)
        /\ UNCHANGED <<quirk, soapVars, resVars, ssdpVars, disc, procVars>>

\* upnp.go 37-43 over igd.go 51-54: IsForwarded against any HTTP exchange a
\* server can produce
IsForwardedReply ==
    /\ ~soapOut.done
    /\ \E reply \in Replies :
          LET r == performSOAPAction(reply, "GetSpecificPortMappingEntryResponse") IN
          /\ soapIn' = [reply |-> reply, respType |-> "GetSpecificPortMappingEntryResponse"]
          /\ soapOut' = [done |-> TRUE, op |-> "IsForwarded", err |-> r.err,
                         resp |-> r.resp, result |-> IsForwardedResult(r.resp)]
          /\ UNCHANGED <<devVars, resVars, ssdpVars, disc, procVars>>

(***************************************************************************)
(* device.go: description documents and DeviceByURL.                       *)
(***************************************************************************)
U1 == "http://192.168.1.1:5000/rootDesc.xml"        \* description of router 1
B1 == "http://192.168.1.1:5000"                     \* a URLBase router 1 may declare
U2 == "http://192.168.1.254:49152/gatedesc.xml"     \* description of router 2
U3 == "http://10.9.9.9:49152/desc.xml"              \* a device of another segment
B3 == "http://10.9.9.9:49152"                       \* a URLBase on that segment
URLs == {U1, B1, U2, U3, B3}

WANPPPConnection1 == "urn:schemas-upnp-org:service:WANPPPConnection:1"
WANIPConnection1 == "urn:schemas-upnp-org:service:WANIPConnection:1"
WANIPConnection2 == "urn:schemas-upnp-org:service:WANIPConnection:2"
WANIPv6Firewall1 == "urn:schemas-upnp-org:service:WANIPv6FirewallControl:1"

ServiceTypes == {WANPPPConnection1, WANIPConnection1, WANIPConnection2, WANIPv6Firewall1}

Service(type, ctl) == [ServiceType |-> type, ControlURL |-> ctl]

MaxDevices == 4     \* devices of a description document
MaxServices == 2    \* services of a description document, over all its devices

\* A parsed document: RootDevice.URLBase as the document gives it, and the
\* device tree.  Device 1 is RootDevice.Device; devices[d].parent is the
\* device whose deviceList holds d (0 for device 1), and the devices of one
\* deviceList stand in document order by increasing number.
ParentArrays(n) ==
    { p \in [1..n -> 0..(n - 1)] :
        /\ p[1] = 0
        /\ \A d \in 2..n : p[d] >= 1 /\ p[d] < d }

\* the services of a document as (device, serviceType) pairs, device by device
SlotSeqs(n, maxSrv, types) ==
    UNION { { q \in [1..s -> (1..n) \X types] :
                \A i \in 1..(s - 1) : q[i][1] <= q[i + 1][1] } : s \in 0..maxSrv }

RECURSIVE ServiceList(_, _, _)
\* the serviceList of device d; every service has a controlURL of its own
ServiceList(q, d, i) ==
    IF q = <<>> THEN <<>>
    ELSE IF Head(q)[1] = d
         THEN <<Service(Head(q)[2], <<"/ctl/", d, i>>)>> \o ServiceList(Tail(q), d, i + 1)
         ELSE ServiceList(Tail(q), d, i)

Document(urlBase, n, p, q) ==
    [URLBase |-> urlBase,
     devices |-> [d \in 1..n |-> [parent |-> p[d], Services |-> ServiceList(q, d, 1)]]]

NoDocument == [URLBase |-> "", devices |-> <<>>]

\* what the server behind a URL answers to the GET of DeviceByURL
ConnRefused == [net |-> FALSE, status |-> 0, text |-> "", xml |-> FALSE, doc |-> NoDocument]
HttpError(status, text) ==
    [net |-> TRUE, status |-> status, text |-> text, xml |-> FALSE, doc |-> NoDocument]
NotXML(text) == [net |-> TRUE, status |-> 200, text |-> text, xml |-> FALSE, doc |-> NoDocument]
Description(doc) == [net |-> TRUE, status |-> 200, text |-> "", xml |-> TRUE, doc |-> doc]

Failures == {ConnRefused, HttpError(404, "Not Found"), NotXML("Not Found")}

NoRoot == [URLBase |-> "", devices |-> <<>>]

\* device.go 35-57: DeviceByURL
DeviceByURLMutantKeepBase(netw, url) ==
    LET r == netw[url] IN
    IF ~r.net THEN [err |-> <<"connection refused">>, root |-> NoRoot]
    ELSE IF r.status # 200 THEN [err |-> <<r.text>>, root |-> NoRoot]
    ELSE IF ~r.xml THEN [err |-> <<"invalid response body: ", "EOF">>, root |-> NoRoot]
    ELSE [err |-> NoErr, root |-> r.doc]

DeviceByURL(netw, url) ==
    LET r == netw[url] IN
    IF ~r.net THEN [err |-> <<"connection refused">>, root |-> NoRoot]
    ELSE IF r.status # 200 THEN [err |-> <<r.text>>, root |-> NoRoot]
    ELSE IF ~r.xml THEN [err |-> <<"invalid response body: ", "EOF">>, root |-> NoRoot]
    ELSE [err |-> NoErr,
          root |-> [r.doc EXCEPT !.URLBase = IF r.doc.URLBase = "" THEN url
                                              ELSE r.doc.URLBase]]

(***************************************************************************)
(* igd.go: the service resolver.                                           *)
(***************************************************************************)
IGDClient(urlBase, srv) == [urlBase |-> urlBase, srv |-> srv]
NoClient == IGDClient("", Service("", <<>>))

\* igd.go 69-75
Location(igd) == igd.urlBase
ServiceType(igd) == igd.srv.ServiceType

\* igd.go 100-105: the switch on srv.ServiceType
IsWANConnection(type) ==
    type \in {WANPPPConnection1, WANIPConnection1, WANIPConnection2}

RECURSIVE SortedSeq(_)
\* a set of device numbers in increasing order
SortedSeq(S) ==
    IF S = {} THEN <<>>
    ELSE LET m == CHOOSE x \in S : \A y \in S : x <= y IN <<m>> \o SortedSeq(S \ {m})

\* d.Devices, in document order
Devices(root, d) ==
    SortedSeq({ c \in DOMAIN root.devices : root.devices[c].parent = d })

RECURSIVE OwnClients(_, _)
\* igd.go 99-106: the loop over d.Services
OwnClients(urlBase, services) ==
    IF services = <<>> THEN <<>>
    ELSE (IF IsWANConnection(Head(services).ServiceType)
          THEN <<IGDClient(urlBase, Head(services))>>
          ELSE <<>>) \o OwnClients(urlBase, Tail(services))

RECURSIVE visit(_, _), visitEach(_, _), visitMutantChildrenFirst(_, _)
\* igd.go 98-110: visit, and its loop over d.Devices
visitEach(root, ds) ==
    IF ds = <<>> THEN <<>>
    ELSE visit(root, Head(ds)) \o visitEach(root, Tail(ds))

visitMutantChildrenFirst(root, d) ==
    visitEach(root, Devices(root, d))
        \o OwnClients(root.URLBase, root.devices[d].Services)

visit(root, d) ==
    OwnClients(root.URLBase, root.devices[d].Services)
        \o visitEach(root, Devices(root, d))

\* igd.go 90-113: IGDClientsByURL
IGDClientsByURL(netw, url) ==
    LET rd == DeviceByURL(netw, url) IN
    IF IsErr(rd.err) THEN [err |-> rd.err, clients |-> <<>>]
    ELSE [err |-> NoErr, clients |-> visit(rd.root, 1)]

(***************************************************************************)
(* upnp.go: getInternalIP and Connect.                                     *)
(***************************************************************************)
\* url.Parse(loc).Host resolved by net.ResolveUDPAddr: the IP of the device
HostIP(loc) ==
    CASE loc \in {U1, B1} -> <<192, 168, 1, 1>>
      [] loc = U2 -> <<192, 168, 1, 254>>
      [] loc \in {U3, B3} -> <<10, 9, 9, 9>>

\* net.Interfaces() and their addresses: loopback and one LAN interface
Interfaces ==
    << [IP |-> <<127, 0, 0, 1>>, ones |-> 1], [IP |-> <<192, 168, 1, 2>>, ones |-> 3] >>

\* (*net.IPNet).Contains, for masks of whole octets
IPNetContains(x, ip) == \A i \in 1..x.ones : x.IP[i] = ip[i]

\* net.IP.String
IPString(ip) ==
    CASE ip = <<127, 0, 0, 1>> -> "127.0.0.1"
      [] ip = <<192, 168, 1, 2>> -> "192.168.1.2"

\* upnp.go 68-101: getInternalIP, the first interface address whose network
\* holds the device
getInternalIP(loc) ==
    LET hits == { i \in 1..Len(Interfaces) : IPNetContains(Interfaces[i], HostIP(loc)) } IN
    IF hits = {} THEN
        [err |-> <<"could not find local address in same net as ", loc>>, ip |-> ""]
    ELSE [err |-> NoErr,
          ip |-> IPString(Interfaces[CHOOSE i \in hits : \A j \in hits : i <= j].IP)]

UpnpDevice(ip, c) == [internalIP |-> ip, client |-> c]
NoDevice == UpnpDevice("", NoClient)

\* upnp.go 126-144: Connect.  clients is what IGDClientsByURL returned.
ConnectMutantFirst(netw, deviceURL) ==
    LET r == IGDClientsByURL(netw, deviceURL) IN
    IF IsErr(r.err) THEN [err |-> r.err, dev |-> NoDevice, clients |-> r.clients]
    ELSE IF Len(r.clients) = 0 THEN
        [err |-> <<"no UPnP-enabled gateway found at ", deviceURL>>,
         dev |-> NoDevice, clients |-> r.clients]
    ELSE
        LET c == r.clients[1]
            ip == getInternalIP(Location(c))
        IN
        IF IsErr(ip.err) THEN [err |-> ip.err, dev |-> NoDevice, clients |-> r.clients]
        ELSE [err |-> NoErr, dev |-> UpnpDevice(ip.ip, c), clients |-> r.clients]

Connect(netw, deviceURL) ==
    LET r == IGDClientsByURL(netw, deviceURL) IN
    IF IsErr(r.err) THEN [err |-> r.err, dev |-> NoDevice, clients |-> r.clients]
    ELSE IF Len(r.clients) = 0 THEN
        [err |-> <<"no UPnP-enabled gateway found at ", deviceURL>>,
         dev |-> NoDevice, clients |-> r.clients]
    ELSE IF Len(r.clients) > 1 THEN
        [err |-> <<"multiple UPnP-enabled gateways found at ", deviceURL>>,
         dev |-> NoDevice, clients |-> r.clients]
    ELSE
        LET c == r.clients[1]
            ip == getInternalIP(Location(c))
        IN
        IF IsErr(ip.err) THEN [err |-> ip.err, dev |-> NoDevice, clients |-> r.clients]
        ELSE [err |-> NoErr, dev |-> UpnpDevice(ip.ip, c), clients |-> r.clients]

\* a network on which nothing answers
DeadNet == [u \in URLs |-> ConnRefused]

NoConn ==
    [done |-> FALSE, url |-> "", from |-> 0, err |-> NoErr, dev |-> NoDevice,
     clients |-> <<>>, root |-> NoRoot]

\* Connect(ctx, U1) returning, router 1 having answered the GET with answer
Connected(answer) ==
    LET netw == [DeadNet EXCEPT ![U1] = answer]
        c == Connect(netw, U1)
    IN
    /\ net' = netw
    /\ conn' = [done |-> TRUE, url |-> U1, from |-> 0, err |-> c.err,
                dev |-> c.dev, clients |-> c.clients,
                root |-> DeviceByURL(netw, U1).root]

\* Connect(ctx, U1) against whatever router 1 serves: a failure, or a
\* description document
ConnectURL ==
    /\ ~conn.done
    /\ \/ \E answer \in Failures : Connected(answer)
       \/ \E n \in 1..MaxDevices, b \in {"", B1, B3} :
             \E p \in ParentArrays(n), q \in SlotSeqs(n, MaxServices, ServiceTypes) :
                Connected(Description(Document(b, n, p, q)))
    /\ UNCHANGED <<soapVars, devVars, ssdpVars, disc, procVars>>

(***************************************************************************)
(* SSDP discovery: SSDP(ctx), the blocking search that Discover runs.      *)
(***************************************************************************)
numSends == 3
MaxRx == 3      \* datagrams and read errors one discovery run receives

U1Upper == "HTTP://192.168.1.1:5000/rootDesc.xml"   \* U1 as some devices spell it

\* What conn.ReadFrom returns: a temporary error, or a datagram.  http is
\* whether the datagram parses as an HTTP response; location and usn are the
\* values of its LOCATION and USN headers, "" for a header it lacks.
TempError == [kind |-> "temporary", http |-> FALSE, status |-> 0, location |-> "", usn |-> ""]
Garbage == [kind |-> "datagram", http |-> FALSE, status |-> 0, location |-> "", usn |-> ""]
Response(status, location, usn) ==
    [kind |-> "datagram", http |-> TRUE, status |-> status, location |-> location, usn |-> usn]

Received(locations, usns) ==
    {TempError, Garbage, Response(200, "", "uuid:A")}
    \cup { Response(404, l, "uuid:A") : l \in locations }
    \cup { Response(200, l, u) : l \in locations, u \in usns }

\* response.Location() followed by String(): url.Parse lower-cases the scheme
LocationString(header) == IF header = U1Upper THEN U1 ELSE header

\* a response the loop reports or suppresses, rather than skips
ValidMutantAnyStatus(d) == d.kind = "datagram" /\ d.http /\ d.location # ""

Valid(d) == d.kind = "datagram" /\ d.http /\ d.status = 200 /\ d.location # ""

\* the key a valid response is deduplicated by
DedupKeyMutantLocation(d) == LocationString(d.location)

DedupKeyMutantNoFallback(d) == d.usn

DedupKey(d) == IF d.usn = "" THEN LocationString(d.location) ELSE d.usn

SsdpIdle ==
    [pc |-> "idle", sent |-> 0, nread |-> 0, seen |-> {}, locs |-> <<>>, err |-> NoErr]

\* net.ListenPacket("udp", ":0")
Listen ==
    /\ ssdp.pc = "idle"
    /\ \E ok \in BOOLEAN :
          ssdp' = IF ok THEN [ssdp EXCEPT !.pc = "send"]
                  ELSE [ssdp EXCEPT !.pc = "done", !.err = <<"listen udp :0">>]
    /\ UNCHANGED <<rx, src>>

\* one round of the loop over numSends: conn.WriteTo, then the sleep
Send ==
    /\ ssdp.pc = "send"
    /\ \E ok \in BOOLEAN :
          ssdp' = IF ~ok THEN
                      [ssdp EXCEPT !.pc = "done",
                                   !.err = <<"couldn't write SSDP packet: ", "sendto">>]
                  ELSE [ssdp EXCEPT !.sent = ssdp.sent + 1,
                                    !.pc = IF ssdp.sent + 1 = numSends THEN "read"
                                           ELSE "send"]
    /\ UNCHANGED <<rx, src>>

\* one round of the read loop in which conn.ReadFrom returned d;
\* rx and src keep, for the claims, the datagrams received and, for each
\* reported location, the datagram that it came from
ReadFrom(d, log) ==
    /\ ssdp.pc = "read"
    /\ ssdp.nread < MaxRx
    /\ LET report == Valid(d) /\ DedupKey(d) \notin ssdp.seen IN
       /\ ssdp' = [ssdp EXCEPT
                     !.nread = ssdp.nread + 1,
                     !.seen = IF report THEN ssdp.seen \cup {DedupKey(d)} ELSE ssdp.seen,
                     !.locs = IF report THEN Append(ssdp.locs, LocationString(d.location))
                              ELSE ssdp.locs]
       /\ rx' = IF log THEN Append(rx, d) ELSE rx
       /\ src' = IF log /\ report THEN Append(src, Len(rx) + 1) ELSE src

\* conn.ReadFrom failing for good: the context's end closed the socket
ReadClosedMutantError ==
    /\ ssdp.pc = "read"
    /\ ssdp' = [ssdp EXCEPT !.pc = "done", !.locs = <<>>,
                            !.err = <<"read udp: use of closed network connection">>]
    /\ UNCHANGED <<rx, src>>

ReadClosed ==
    /\ ssdp.pc = "read"
    /\ ssdp' = [ssdp EXCEPT !.pc = "done"]
    /\ UNCHANGED <<rx, src>>

(***************************************************************************)
(* igd.go DiscoverIGDClients and upnp.go Discover, after SSDP returned.    *)
(***************************************************************************)
RECURSIVE DiscoverIGDClientsMutantFailFast(_, _)
\* igd.go 82-87: the clients of every location, the errors dropped
DiscoverIGDClientsMutantFailFast(netw, locations) ==
    IF locations = <<>> THEN <<>>
    ELSE IF IsErr(IGDClientsByURL(netw, Head(locations)).err) THEN <<>>
    ELSE IGDClientsByURL(netw, Head(locations)).clients
            \o DiscoverIGDClientsMutantFailFast(netw, Tail(locations))

RECURSIVE DiscoverIGDClients(_, _)
DiscoverIGDClients(netw, locations) ==
    IF locations = <<>> THEN <<>>
    ELSE IGDClientsByURL(netw, Head(locations)).clients
            \o DiscoverIGDClients(netw, Tail(locations))

RECURSIVE Reachable(_)
\* upnp.go 110-114: the clients whose host is on a local network
Reachable(clients) ==
    IF clients = <<>> THEN <<>>
    ELSE LET ip == getInternalIP(Location(Head(clients))) IN
         (IF IsErr(ip.err) THEN <<>> ELSE <<UpnpDevice(ip.ip, Head(clients))>>)
            \o Reachable(Tail(clients))

\* upnp.go 116-122: the less function of the sort
lessMutantReversed(di, dj) ==
    LET si == ServiceType(di.client)
        sj == ServiceType(dj.client)
        ipi == Contains(Text(si), Text("WANIP"))
        ipj == Contains(Text(sj), Text("WANIP"))
    IN IF ipi = ipj THEN StringLess(Text(sj), Text(si)) ELSE ipi

less(di, dj) ==
    LET si == ServiceType(di.client)
        sj == ServiceType(dj.client)
        ipi == Contains(Text(si), Text("WANIP"))
        ipj == Contains(Text(sj), Text("WANIP"))
    IN IF ipi = ipj THEN StringLess(Text(si), Text(sj)) ELSE ipi

RECURSIVE InsertLast(_, _)
\* sort.Slice on a short slice is an insertion sort: x moves left past every
\* element it is less than
InsertLast(s, x) ==
    IF s # <<>> /\ less(x, s[Len(s)])
    THEN Append(InsertLast(SubSeq(s, 1, Len(s) - 1), x), s[Len(s)])
    ELSE Append(s, x)

RECURSIVE sortSlice(_)
sortSlice(s) ==
    IF s = <<>> THEN <<>>
    ELSE InsertLast(sortSlice(SubSeq(s, 1, Len(s) - 1)), s[Len(s)])

\* upnp.go 104-124: Discover, given what SSDP returned
DiscoverDevices(netw, locations) ==
    sortSlice(Reachable(DiscoverIGDClients(netw, locations)))

DiscServices == 2   \* services of a description document met by Discover

\* The networks Discover runs on: router 1 serves any flat document or
\* fails, and nothing or its description at a URLBase it declares; router 2
\* has one connection service or fails; the device of the other segment has
\* one connection service.
FlatDocuments ==
    { Document(b, 1, <<0>>, q) :
        b \in {"", B1},
        q \in SlotSeqs(1, DiscServices,
                       {WANPPPConnection1, WANIPConnection1, WANIPConnection2}) }

OneService(type) == Document("", 1, <<0>>, << <<1, type>> >>)

Networks ==
    { [u \in URLs |->
         CASE u = U1 -> a1
           [] u = B1 -> IF atBase /\ a1.doc.URLBase = B1 THEN a1
                        ELSE HttpError(404, "Not Found")
           [] u = U2 -> a2
           [] u = U3 -> Description(OneService(WANIPConnection1))
           [] OTHER -> ConnRefused] :
        a1 \in {ConnRefused} \cup { Description(doc) : doc \in FlatDocuments },
        atBase \in BOOLEAN,
        a2 \in {HttpError(404, "Not Found")}
                 \cup { Description(OneService(t)) :
                          t \in {WANPPPConnection1, WANIPConnection1, WANIPConnection2} } }

NoDiscover == [done |-> FALSE, err |-> NoErr, devices |-> <<>>]

\* Discover returning: the error of SSDP, or the devices of the locations
DiscoverReturn ==
    /\ ssdp.pc = "done"
    /\ ~disc.done
    /\ IF IsErr(ssdp.err)
       THEN /\ disc' = [done |-> TRUE, err |-> ssdp.err, devices |-> <<>>]
            /\ net' = net
       ELSE \E netw \in Networks :
               /\ net' = netw
               /\ disc' = [done |-> TRUE, err |-> NoErr,
                           devices |-> DiscoverDevices(netw, ssdp.locs)]
    /\ UNCHANGED <<soapVars, devVars, conn, ssdpVars, procVars>>

\* Connect(ctx, d.Location()) for a Device d that Discover returned, the
\* network unchanged
ConnectLocation ==
    /\ disc.done
    /\ ~conn.done
    /\ \E i \in 1..Len(disc.devices) :
          LET url == Location(disc.devices[i].client)
              c == Connect(net, url)
          IN conn' = [done |-> TRUE, url |-> url, from |-> i, err |-> c.err,
                      dev |-> c.dev, clients |-> c.clients,
                      root |-> DeviceByURL(net, url).root]
    /\ UNCHANGED <<soapVars, devVars, net, ssdpVars, disc, procVars>>

(***************************************************************************)
(* Streaming discovery: SSDP() and doSSDP (device.go 59-125), DiscoverAll, *)
(* doDiscoverAll and the first-result Discover (upnp.go, streaming         *)
(* version, 105-159).  locs and devices are unbuffered channels: a send    *)
(* and its receive are one step.                                           *)
(***************************************************************************)
MaxTasks == 2   \* locations one streaming run reports

\* the errors conn.ReadFrom returns, as net.Error sees them
TemporaryErr == [temporary |-> TRUE, timeout |-> FALSE]
TimeoutErr == [temporary |-> TRUE, timeout |-> TRUE]

\* device.go 100: whether the read loop sleeps and reads again
RetryMutantAnyTemporary(e) == e.temporary

Retry(e) == e.temporary /\ ~e.timeout

\* upnp.go (streaming) 132: wg.Wait() returns once every started task is done
wgWaitMutantNoWait(tasks) == TRUE

wgWait(tasks) == \A i \in 1..Len(tasks) : tasks[i].pc = "done"

\* upnp.go (streaming) 151-155: what Discover returns for a receive on devices
recvResultMutantNoOk(d, ok) == [res |-> "device", dev |-> d]

recvResult(d, ok) ==
    IF ~ok THEN [res |-> "none", dev |-> NoDevice] ELSE [res |-> "device", dev |-> d]

\* the datagrams a streaming run may receive before its deadline
StreamReceived ==
    { Garbage, Response(200, "", "uuid:A"), Response(404, U2, ""),
      Response(200, U1, "uuid:A"), Response(200, U2, ""), Response(200, U2, "uuid:A") }

TwoServices ==
    Document("", 1, <<0>>, << <<1, WANPPPConnection1>>, <<1, WANIPConnection1>> >>)

\* the networks a streaming run resolves its locations on
StreamNetworks ==
    { [u \in URLs |->
         CASE u = U1 -> a1
           [] u = U2 -> a2
           [] u = U3 -> Description(OneService(WANIPConnection1))
           [] OTHER -> ConnRefused] :
        a1 \in {ConnRefused, Description(OneService(WANIPConnection1)),
                Description(TwoServices)},
        a2 \in {HttpError(404, "Not Found"), Description(OneService(WANPPPConnection1))} }

StrmIdle ==
    [sock |-> "none",       \* the UDP socket: none, open, closed
     ssdp |-> "idle",       \* SSDP/doSSDP: idle, send, read, put, done, failed
     sent |-> 0,
     expired |-> FALSE,     \* the deadline of conn.SetDeadline has passed
     seen |-> {},
     loc |-> "",            \* the location doSSDP is sending on locs
     locsClosed |-> FALSE,
     dda |-> "none",        \* doDiscoverAll: none, range, wait, done
     tasks |-> <<>>,        \* the resolution tasks: [url, pc, out]
     devClosed |-> 0,       \* how many times close(devices) ran
     disc |-> "idle",       \* Discover: idle, call, select, returned
     res |-> "",            \* what Discover returned: device, none, ctx, err
     dev |-> NoDevice,
     drain |-> FALSE,       \* the goroutine of Discover's defer is running
     cancelled |-> FALSE,   \* ctx.Done() is closed
     first |-> NoDevice,    \* the first Device received from devices
     delivered |-> 0]       \* Devices received from devices by Discover's select

\* Discover -> DiscoverAll -> SSDP: net.ListenPacket and conn.SetDeadline
SDiscoverCall ==
    /\ strm.disc = "idle"
    /\ \E ok \in BOOLEAN :
          strm' = IF ok THEN [strm EXCEPT !.sock = "open", !.ssdp = "send", !.disc = "call"]
                  ELSE [strm EXCEPT !.ssdp = "failed", !.disc = "returned", !.res = "err"]
    /\ UNCHANGED cx

\* device.go 77-86: one conn.WriteTo of the send loop.  After the last one
\* SSDP starts doSSDP, DiscoverAll starts doDiscoverAll, and Discover waits in
\* its select.  A failed send returns the error, the socket left as it is.
SSend ==
    /\ strm.ssdp = "send"
    /\ \E ok \in BOOLEAN :
          strm' = IF ~ok THEN
                      [strm EXCEPT !.ssdp = "failed", !.disc = "returned", !.res = "err"]
                  ELSE IF strm.sent + 1 < numSends THEN
                      [strm EXCEPT !.sent = strm.sent + 1]
                  ELSE [strm EXCEPT !.sent = strm.sent + 1, !.ssdp = "read",
                                    !.dda = "range", !.disc = "select"]
    /\ UNCHANGED cx

\* the deadline set at device.go 65 passes
SExpire ==
    /\ strm.sock = "open" /\ ~strm.expired
    /\ strm' = [strm EXCEPT !.expired = TRUE]
    /\ UNCHANGED cx

\* device.go 98-123: a datagram read before the deadline
SRead(d) ==
    /\ strm.ssdp = "read" /\ ~strm.expired
    /\ strm' = IF Valid(d) /\ DedupKey(d) \notin strm.seen
               THEN [strm EXCEPT !.seen = strm.seen \cup {DedupKey(d)},
                                 !.ssdp = "put",
                                 !.loc = LocationString(d.location)]
               ELSE strm
    /\ UNCHANGED cx

\* device.go 99-105 and the defers of 90-91: conn.ReadFrom returned error e
ReadFailed(e) ==
    /\ strm.ssdp = "read"
    /\ strm' = IF Retry(e) THEN strm
               ELSE [strm EXCEPT !.ssdp = "done", !.locsClosed = TRUE, !.sock = "closed"]
    /\ UNCHANGED cx

\* a temporary read error before the deadline
SReadTemporary == ~strm.expired /\ ReadFailed(TemporaryErr)

\* past the deadline every read fails with a timeout
SReadTimeout == strm.expired /\ ReadFailed(TimeoutErr)

\* upnp.go (streaming) 118-130: doDiscoverAll receives a location from locs
\* and starts its task
SRange ==
    /\ strm.dda = "range" /\ strm.ssdp = "put"
    /\ strm' = [strm EXCEPT
                  !.ssdp = "read", !.loc = "",
                  !.tasks = Append(strm.tasks,
                                   [url |-> strm.loc, pc |-> "fetch", out |-> <<>>])]
    /\ UNCHANGED cx

\* upnp.go (streaming) 118, 132: locs is closed, the range loop ends
SRangeEnd ==
    /\ strm.dda = "range" /\ strm.locsClosed
    /\ strm' = [strm EXCEPT !.dda = "wait"]
    /\ UNCHANGED cx

\* upnp.go (streaming) 124-126: the task resolves its location
STaskFetch(i) ==
    /\ i <= Len(strm.tasks) /\ strm.tasks[i].pc = "fetch"
    /\ LET out == Reachable(IGDClientsByURL(net, strm.tasks[i].url).clients) IN
       strm' = [strm EXCEPT !.tasks[i].out = out,
                            !.tasks[i].pc = IF out = <<>> THEN "done" ELSE "send"]
    /\ UNCHANGED cx

\* the task after its send of Head(out)
Sent(i) ==
    [strm.tasks EXCEPT ![i].out = Tail(strm.tasks[i].out),
                       ![i].pc = IF Len(strm.tasks[i].out) = 1 THEN "done" ELSE "send"]

\* upnp.go (streaming) 127 with 151-155: the task's send meets Discover's
\* select, and Discover returns, its defer starting the draining goroutine
SDeliverSelect(i) ==
    /\ i <= Len(strm.tasks) /\ strm.tasks[i].pc = "send"
    /\ strm.devClosed = 0 /\ strm.disc = "select"
    /\ LET r == recvResult(Head(strm.tasks[i].out), TRUE) IN
       strm' = [strm EXCEPT !.tasks = Sent(i), !.disc = "returned", !.res = r.res,
                            !.dev = r.dev, !.drain = TRUE,
                            !.first = Head(strm.tasks[i].out),
                            !.delivered = 1]
    /\ UNCHANGED cx

\* upnp.go (streaming) 127 with 146: the task's send meets the draining loop
SDeliverDrain(i) ==
    /\ i <= Len(strm.tasks) /\ strm.tasks[i].pc = "send"
    /\ strm.devClosed = 0 /\ strm.drain
    /\ strm' = [strm EXCEPT !.tasks = Sent(i)]
    /\ UNCHANGED cx

\* upnp.go (streaming) 132-133: wg.Wait() returns, close(devices)
SClose ==
    /\ strm.dda = "wait" /\ wgWait(strm.tasks)
    /\ strm' = [strm EXCEPT !.dda = "done", !.devClosed = strm.devClosed + 1]
    /\ UNCHANGED cx

\* upnp.go (streaming) 151-154: the select receives from the closed devices
SSelectClosed ==
    /\ strm.disc = "select" /\ strm.devClosed > 0
    /\ LET r == recvResult(NoDevice, FALSE) IN
       strm' = [strm EXCEPT !.disc = "returned", !.res = r.res, !.dev = r.dev,
                            !.drain = TRUE]
    /\ UNCHANGED cx

\* upnp.go (streaming) 156-157: the select takes ctx.Done()
SSelectCtx ==
    /\ strm.disc = "select" /\ strm.cancelled
    /\ strm' = [strm EXCEPT !.disc = "returned", !.res = "ctx", !.drain = TRUE]
    /\ UNCHANGED cx

\* the caller cancels the context it passed to Discover
SCancel ==
    /\ ~strm.cancelled /\ strm.disc # "returned"
    /\ strm' = [strm EXCEPT !.cancelled = TRUE]
    /\ UNCHANGED cx

\* upnp.go (streaming) 146-147: the draining loop ends on the closed devices
SDrainEnd ==
    /\ strm.drain /\ strm.devClosed > 0
    /\ strm' = [strm EXCEPT !.drain = FALSE]
    /\ UNCHANGED cx

(***************************************************************************)
(* Operations in flight and their contexts: a SOAP action (soap.go 66-75), *)
(* Connect (upnp.go 128-144 over device.go 35-40) and the blocking         *)
(* Discover (upnp.go 104-124 over SSDP(ctx) and igd.go 77-88).  Each is at *)
(* one of its suspension points; cancelled says that the caller cancelled  *)
(* the context of the call.                                                *)
(***************************************************************************)
MaxLocs == 2    \* locations the blocking SSDP of this part collects

CxIdle ==
    [inv |-> [pc |-> "idle", cancelled |-> FALSE, err |-> ""],
     con |-> [pc |-> "idle", cancelled |-> FALSE, err |-> ""],
     dis |-> [pc |-> "idle", cancelled |-> FALSE, err |-> "", sent |-> 0,
              closed |-> FALSE, locs |-> 0, left |-> 0]]

\* the caller cancels the context under which operation op runs
Cancel(op) ==
    /\ cx[op].pc # "done" /\ ~cx[op].cancelled
    /\ cx' = [cx EXCEPT ![op].cancelled = TRUE]
    /\ UNCHANGED strm

\* soap.go 67-72: the request is built by http.NewRequest, which attaches no
\* context, and http.DefaultClient (no Timeout) sends it
InvokeCall ==
    /\ cx.inv.pc = "idle"
    /\ cx' = [cx EXCEPT !.inv.pc = "await"]
    /\ UNCHANGED strm

\* soap.go 72-75: Do returns when the server answers or the transport fails
InvokeReply ==
    /\ cx.inv.pc = "await"
    /\ \E e \in {"", "transport"} : cx' = [cx EXCEPT !.inv.pc = "done", !.inv.err = e]
    /\ UNCHANGED strm

\* upnp.go 129, igd.go 91, device.go 36-37: the GET carries ctx
ConnectCall ==
    /\ cx.con.pc = "idle"
    /\ cx' = [cx EXCEPT !.con.pc = "fetch"]
    /\ UNCHANGED strm

\* device.go 37-57, igd.go 92-112, upnp.go 130-143: the server answers
ConnectReply ==
    /\ cx.con.pc = "fetch"
    /\ \E e \in {"", "transport"} : cx' = [cx EXCEPT !.con.pc = "done", !.con.err = e]
    /\ UNCHANGED strm

\* device.go 37-40: Do returns ctx.Err() once ctx is done
ConnectAbort ==
    /\ cx.con.pc = "fetch" /\ cx.con.cancelled
    /\ cx' = [cx EXCEPT !.con.pc = "done", !.con.err = "context canceled"]
    /\ UNCHANGED strm

\* upnp.go 105, SSDP(ctx) 61-70: the context with timeout, the socket, and the
\* goroutine that closes the socket when the context is done
DiscoverCall ==
    /\ cx.dis.pc = "idle"
    /\ \E ok \in BOOLEAN :
          cx' = IF ok THEN [cx EXCEPT !.dis.pc = "send"]
                ELSE [cx EXCEPT !.dis.pc = "done", !.dis.err = "listen"]
    /\ UNCHANGED strm

\* SSDP(ctx) 67-70: ctx is done, by the caller's cancel or by its timeout, and
\* the goroutine closes the socket
DiscoverCtxDone ==
    /\ cx.dis.pc \in {"send", "read"} /\ ~cx.dis.closed
    /\ cx' = [cx EXCEPT !.dis.closed = TRUE]
    /\ UNCHANGED strm

\* SSDP(ctx) 83-88: conn.WriteTo and the sleep; it fails on a closed socket
DiscoverSend ==
    /\ cx.dis.pc = "send"
    /\ \E ok \in BOOLEAN :
          /\ cx.dis.closed => ~ok
          /\ cx' = IF ~ok THEN [cx EXCEPT !.dis.pc = "done", !.dis.err = "write"]
                   ELSE [cx EXCEPT !.dis.sent = cx.dis.sent + 1,
                                   !.dis.pc = IF cx.dis.sent + 1 = numSends
                                              THEN "read" ELSE "send"]
    /\ UNCHANGED strm

\* SSDP(ctx) 94-121: a datagram or a temporary error is read; a new location
\* may be collected
DiscoverRead ==
    /\ cx.dis.pc = "read" /\ ~cx.dis.closed
    /\ \E new \in BOOLEAN :
          /\ new => cx.dis.locs < MaxLocs
          /\ cx' = IF new THEN [cx EXCEPT !.dis.locs = cx.dis.locs + 1] ELSE cx
    /\ UNCHANGED strm

\* SSDP(ctx) 95-101: the read on the closed socket fails for good; igd.go 83
\* starts on the locations
DiscoverReadClosed ==
    /\ cx.dis.pc = "read" /\ cx.dis.closed
    /\ cx' = [cx EXCEPT !.dis.pc = IF cx.dis.locs = 0 THEN "done" ELSE "fetch",
                        !.dis.left = cx.dis.locs]
    /\ UNCHANGED strm

\* the fetch of one location by igd.go 84 is over
Fetched ==
    [cx EXCEPT !.dis.left = cx.dis.left - 1,
               !.dis.pc = IF cx.dis.left = 1 THEN "done" ELSE "fetch"]

\* igd.go 84, device.go 36-57: the server of the location answers
DiscoverFetchReply ==
    /\ cx.dis.pc = "fetch"
    /\ cx' = Fetched
    /\ UNCHANGED strm

\* igd.go 84, device.go 37-40: Do returns ctx.Err() once ctx is done, and the
\* error is dropped
DiscoverFetchAbort ==
    /\ cx.dis.pc = "fetch" /\ cx.dis.cancelled
    /\ cx' = Fetched
    /\ UNCHANGED strm

(***************************************************************************)
(* Specifications.                                                         *)
(***************************************************************************)
SoapIdle == soapIn = NoCall /\ soapOut = NoResult
DevIdle ==
    /\ table = [k \in Keys |-> NoEntry]
    /\ quirk = "714"
    /\ last = NoCallYet
    /\ prev = "other"

ResIdle == net = DeadNet /\ conn = NoConn
DiscIdle == ssdp = SsdpIdle /\ rx = <<>> /\ src = <<>> /\ disc = NoDiscover

ProcIdle == strm = StrmIdle /\ cx = CxIdle

\* a step of the streaming discovery or of an operation in flight
Proc(A) == A /\ UNCHANGED <<soapVars, devVars, resVars, ssdpVars, disc>>

\* the bound Device against its router
Init ==
    /\ table \in Tables
    /\ quirk \in Quirks
    /\ last = NoCallYet
    /\ prev = "other"
    /\ SoapIdle /\ ResIdle /\ DiscIdle /\ ProcIdle

Next ==
    \E port \in Ports, proto \in Protos :
        \/ Forward(port, proto, "test")
        \/ IsForwarded(port, proto)
        \/ Clear(port, proto)

Spec == Init /\ [][Next]_vars

\* the SOAP engine against every HTTP exchange
InitSOAP == SoapIdle /\ DevIdle /\ ResIdle /\ DiscIdle /\ ProcIdle
NextSOAP == Invoke \/ IsForwardedReply
SpecSOAP == InitSOAP /\ [][NextSOAP]_vars

\* the description fetcher, the service resolver and Connect against every
\* description document
InitResolve == SoapIdle /\ DevIdle /\ ResIdle /\ DiscIdle /\ ProcIdle
NextResolve == ConnectURL
SpecResolve == InitResolve /\ [][NextResolve]_vars

\* one SSDP run, datagram by datagram
InitSSDP == SoapIdle /\ DevIdle /\ ResIdle /\ DiscIdle /\ ProcIdle
NextSSDP ==
    /\ \/ Listen
       \/ Send
       \/ \E d \in Received({U1, U1Upper, U2}, {"", "uuid:A", "uuid:B"}) : ReadFrom(d, TRUE)
       \/ ReadClosed
    /\ UNCHANGED <<soapVars, devVars, resVars, disc, procVars>>
SpecSSDP == InitSSDP /\ [][NextSSDP]_vars

\* Discover, and Connect to the location of a Device it returned
InitDiscover == SoapIdle /\ DevIdle /\ ResIdle /\ DiscIdle /\ ProcIdle
NextDiscover ==
    \/ /\ \/ Listen
          \/ Send
          \/ \E d \in Received({U1, U2, U3}, {""}) : ReadFrom(d, FALSE)
          \/ ReadClosed
       /\ UNCHANGED <<soapVars, devVars, resVars, disc, procVars>>
    \/ DiscoverReturn
    \/ ConnectLocation
SpecDiscover == InitDiscover /\ [][NextDiscover]_vars

\* the streaming discovery: the first-result Discover over DiscoverAll over
\* SSDP.  The steps of the program are fair; neither the datagrams nor the
\* caller's cancel are.
InitStream ==
    /\ SoapIdle /\ DevIdle /\ DiscIdle
    /\ net \in StreamNetworks /\ conn = NoConn
    /\ ProcIdle

StreamStep ==
    \/ SDiscoverCall
    \/ SSend
    \/ SExpire
    \/ \E d \in StreamReceived : SRead(d)
    \/ SReadTemporary
    \/ SReadTimeout
    \/ SRange
    \/ SRangeEnd
    \/ \E i \in 1..MaxTasks : STaskFetch(i)
    \/ \E i \in 1..MaxTasks : SDeliverSelect(i)
    \/ \E i \in 1..MaxTasks : SDeliverDrain(i)
    \/ SClose
    \/ SSelectClosed
    \/ SSelectCtx
    \/ SCancel
    \/ SDrainEnd

NextStream == Proc(StreamStep)

FairStream ==
    /\ WF_vars(Proc(SDiscoverCall)) /\ WF_vars(Proc(SSend)) /\ WF_vars(Proc(SExpire))
    /\ WF_vars(Proc(SReadTimeout)) /\ WF_vars(Proc(SRange)) /\ WF_vars(Proc(SRangeEnd))
    /\ \A i \in 1..MaxTasks :
          /\ WF_vars(Proc(STaskFetch(i)))
          /\ WF_vars(Proc(SDeliverSelect(i)))
          /\ WF_vars(Proc(SDeliverDrain(i)))
    /\ WF_vars(Proc(SClose)) /\ WF_vars(Proc(SSelectClosed)) /\ WF_vars(Proc(SSelectCtx))
    /\ WF_vars(Proc(SDrainEnd))

SpecStream == InitStream /\ [][NextStream]_vars /\ FairStream

\* operations in flight and their contexts.  The steps the program or its
\* HTTP client takes by itself are fair; the answers of the network are not.
InitCancel == SoapIdle /\ DevIdle /\ ResIdle /\ DiscIdle /\ ProcIdle

CancelStep ==
    \/ \E op \in {"inv", "con", "dis"} : Cancel(op)
    \/ InvokeCall
    \/ InvokeReply
    \/ ConnectCall
    \/ ConnectReply
    \/ ConnectAbort
    \/ DiscoverCall
    \/ DiscoverCtxDone
    \/ DiscoverSend
    \/ DiscoverRead
    \/ DiscoverReadClosed
    \/ DiscoverFetchReply
    \/ DiscoverFetchAbort

NextCancel == Proc(CancelStep)

FairCancel ==
    /\ WF_vars(Proc(InvokeCall)) /\ WF_vars(Proc(ConnectCall)) /\ WF_vars(Proc(ConnectAbort))
    /\ WF_vars(Proc(DiscoverCall)) /\ WF_vars(Proc(DiscoverCtxDone)) /\ WF_vars(Proc(DiscoverSend))
    /\ WF_vars(Proc(DiscoverReadClosed)) /\ WF_vars(Proc(DiscoverFetchAbort))

SpecCancel == InitCancel /\ [][NextCancel]_vars /\ FairCancel

(***************************************************************************)
(* Claims.                                                                 *)
(***************************************************************************)
\* C1: against a router that keeps its table faithfully, whatever it held
\* before: an IsForwarded(port, proto) the router answers right after a
\* Forward(port, proto, desc) that returned no error returns true, and an
\* IsForwarded(port, proto) right after a Clear(port, proto) that returned no
\* error returns false.
C1_RoundTrip ==
    last.op = "IsForwarded" =>
        /\ (prev = "Forward" /\ last.answered) => last.result = TRUE
        /\ prev = "Clear" => last.result = FALSE

C1_Witness ==
    /\ last.op = "IsForwarded" /\ last.answered /\ last.result
    /\ prev = "Forward"
    /\ \E k \in Keys : k # <<last.port, last.proto>> /\ table[k].present

\* C2: on a router that answers the delete of a missing entry with the
\* NoSuchEntryInArray fault (UPnP error 714), a Clear(port, proto) the router
\* answers returns no error when the port is not forwarded, and so does a
\* Clear that follows a Clear of the same port.
C2_ClearIdempotent ==
    (last.op = "Clear" /\ last.answered /\ quirk = "714"
        /\ (~last.had \/ prev = "Clear")) =>
        last.err = NoErr

C2_Witness ==
    /\ last.op = "Clear" /\ last.answered /\ quirk = "714" /\ ~last.had
    /\ prev = "Clear"
    /\ last.err = NoErr

WellFormedFault(reply) ==
    /\ reply.net /\ reply.xml /\ reply.ns = SoapNS
    /\ reply.fault.present /\ reply.fault.detail /\ reply.fault.upnp

\* C9: for every response envelope that holds a Fault with a UPnP error
\* detail, performSOAPAction returns an error whose text contains the error
\* code and the error description, and the caller's response structure is
\* left as it was (zero).
C9_FaultError ==
    (soapOut.done /\ WellFormedFault(soapIn.reply)) =>
        /\ IsErr(soapOut.err)
        /\ Contains(ErrorText(soapOut.err), Text(soapIn.reply.fault.code))
        /\ Contains(ErrorText(soapOut.err), Text(soapIn.reply.fault.desc))
        /\ soapOut.resp = ZeroResp

C9_Witness ==
    /\ soapOut.done /\ WellFormedFault(soapIn.reply)
    /\ soapIn.reply.fault.code = "718"
    /\ soapIn.respType = "GetSpecificPortMappingEntryResponse"
    /\ soapIn.reply.hasAction /\ Len(soapIn.reply.fields) = MaxFields
    /\ IsErr(soapOut.err)

\* C10 as stated: when the HTTP status is not 200, the error returned is the
\* whole response body as opaque text, and no response field is filled.
C10_Original ==
    (soapOut.done /\ soapIn.reply.net /\ soapIn.reply.status # 200) =>
        /\ soapOut.err = RawBody(soapIn.reply)
        /\ soapOut.resp = ZeroResp

\* C10 amended: performSOAPAction does not read the HTTP status.  A response
\* whose status is not 200 is decoded as a SOAP envelope like any other: a
\* body that is no SOAP envelope gives an "invalid response body" error, an
\* envelope with a Fault gives that fault's error, both with no response field
\* filled, and an envelope without a Fault gives what the same body gives
\* under status 200 (the response fields decoded, no error unless that
\* decoding fails).  The error is never the raw body.
C10_StatusIgnored ==
    (soapOut.done /\ soapIn.reply.net /\ soapIn.reply.status # 200) =>
        LET reply == soapIn.reply
            env == reply.xml /\ reply.ns = SoapNS
            asOK == performSOAPAction([reply EXCEPT !.status = 200], soapIn.respType)
        IN
        /\ soapOut.err # RawBody(reply)
        /\ ~env => /\ SubSeq(soapOut.err, 1, 1) = <<"invalid response body: ">>
                   /\ soapOut.resp = ZeroResp
        /\ (env /\ reply.fault.present) =>
                /\ Head(soapOut.err) \in {"SOAP fault: ", "UPnP error: "}
                /\ soapOut.resp = ZeroResp
        /\ (env /\ ~reply.fault.present) =>
                /\ soapOut.err = asOK.err
                /\ soapOut.resp = asOK.resp
                /\ (soapIn.respType = "nil" => soapOut.err = NoErr)

C10_Witness ==
    /\ soapOut.done /\ soapIn.reply.net /\ soapIn.reply.status = 500
    /\ soapIn.reply.xml /\ soapIn.reply.ns = SoapNS /\ ~soapIn.reply.fault.present
    /\ soapIn.respType = "GetSpecificPortMappingEntryResponse"
    /\ soapOut.err = NoErr /\ soapOut.resp.NewEnabled

\* the document router 1 served to Connect, when it served one
ServedDoc == net[U1].doc
FetchedOK == net[U1].net /\ net[U1].status = 200 /\ net[U1].xml

WANTypes == {WANPPPConnection1, WANIPConnection1, WANIPConnection2}

\* the services of a document that are WAN connection services, by place
WANSlots(doc) ==
    { <<d, i>> \in (DOMAIN doc.devices) \X (1..MaxServices) :
        /\ i <= Len(doc.devices[d].Services)
        /\ doc.devices[d].Services[i].ServiceType \in WANTypes }

\* C3: Connect returns the "no UPnP-enabled gateway found at <url>" error
\* when the description fetched from the URL resolves to no WAN connection
\* service, the "multiple UPnP-enabled gateways found at <url>" error when it
\* resolves to two or more, and a Device (no error) only when the description
\* was fetched and resolves to exactly one, which the Device is bound to.
C3_ConnectCount ==
    conn.done =>
        LET n == Cardinality(WANSlots(ServedDoc)) IN
        /\ (FetchedOK /\ n = 0) =>
                conn.err = <<"no UPnP-enabled gateway found at ", conn.url>>
        /\ (FetchedOK /\ n >= 2) =>
                conn.err = <<"multiple UPnP-enabled gateways found at ", conn.url>>
        /\ ~IsErr(conn.err) =>
                /\ FetchedOK /\ n = 1
                /\ \E s \in WANSlots(ServedDoc) :
                      conn.dev.client.srv = ServedDoc.devices[s[1]].Services[s[2]]
        /\ IsErr(conn.err) => conn.dev = NoDevice

C3_Witness ==
    /\ conn.done /\ FetchedOK
    /\ \E s, t \in WANSlots(ServedDoc) : s[1] # t[1]
    /\ conn.err = <<"multiple UPnP-enabled gateways found at ", U1>>

RECURSIVE Path(_, _)
\* the devices from the root down to d
Path(doc, d) ==
    IF doc.devices[d].parent = 0 THEN <<d>>
    ELSE Append(Path(doc, doc.devices[d].parent), d)

\* a is visited before b in a pre-order walk: a is an ancestor of b, or where
\* their paths part the branch of a comes first in the document
Before(doc, a, b) ==
    LET pa == Path(doc, a)
        pb == Path(doc, b)
    IN
    /\ a # b
    /\ \/ Len(pa) < Len(pb) /\ SubSeq(pb, 1, Len(pa)) = pa
       \/ \E i \in 1..Len(pa) :
             /\ i <= Len(pb)
             /\ SubSeq(pa, 1, i - 1) = SubSeq(pb, 1, i - 1)
             /\ pa[i] < pb[i]

\* C8: for every device tree, IGDClientsByURL returns exactly the services
\* whose serviceType is one of the three WAN connection URNs, each once and
\* each paired with the root's urlBase, in pre-order: a service comes before
\* another when its device is visited first, or when both are of one device
\* and it stands first in the serviceList.  No other service is returned.
C8_PreOrder ==
    (conn.done /\ FetchedOK) =>
        LET doc == ServedDoc
            base == IF doc.URLBase = "" THEN U1 ELSE doc.URLBase
            slots == WANSlots(doc)
            pos(s) == 1 + Cardinality({ t \in slots :
                            \/ Before(doc, t[1], s[1])
                            \/ t[1] = s[1] /\ t[2] < s[2] })
        IN
        /\ Len(conn.clients) = Cardinality(slots)
        /\ \A s \in slots :
              conn.clients[pos(s)] =
                  IGDClient(base, doc.devices[s[1]].Services[s[2]])

C8_Witness ==
    /\ conn.done /\ FetchedOK
    /\ Len(ServedDoc.devices) = 4
    /\ ServedDoc.devices[3].parent = 1
    /\ ServedDoc.devices[4].parent = 2
    /\ WANSlots(ServedDoc) = {<<3, 1>>, <<4, 1>>}
    /\ Len(ServedDoc.devices[4].Services) = 1
    /\ Len(conn.clients) = 2
    /\ conn.clients[1].srv.ControlURL = <<"/ctl/", 4, 1>>
    /\ conn.clients[2].srv.ControlURL = <<"/ctl/", 3, 1>>

\* what the claims call the key of a valid response: its USN header, or its
\* location when it has none
KeyOf(d) == IF d.usn # "" THEN d.usn ELSE LocationString(d.location)

\* a response the claims call valid: status 200 and a LOCATION header
IsValid(d) == d.kind = "datagram" /\ d.http /\ d.status = 200 /\ d.location # ""

\* the datagrams of the run that are valid responses with the key of rx[i]
SameKey(i) == { j \in 1..Len(rx) : IsValid(rx[j]) /\ KeyOf(rx[j]) = KeyOf(rx[i]) }
First(S) == CHOOSE i \in S : \A j \in S : i <= j

\* C5: within one discovery run, whatever was received and in whatever
\* order, the valid responses that carry one USN (or, without a USN, one
\* LOCATION) contribute exactly one location: that of the first of them; the
\* later ones are suppressed.
C5_Dedup ==
    /\ Len(src) = Len(ssdp.locs)
    /\ \A i \in 1..Len(rx) :
          IsValid(rx[i]) =>
              LET from == { k \in 1..Len(src) : src[k] \in SameKey(i) } IN
              /\ Cardinality(from) = 1
              /\ \A k \in from :
                    /\ src[k] = First(SameKey(i))
                    /\ ssdp.locs[k] = LocationString(rx[src[k]].location)

C5_Witness ==
    /\ ssdp.pc = "done" /\ Len(rx) = 3
    /\ rx[1] = Response(200, U1, "uuid:A")
    /\ rx[2] = TempError
    /\ rx[3] = Response(200, U2, "uuid:A")
    /\ ssdp.locs = <<U1>>

C4_ConnectLocation ==
    (conn.done /\ conn.from > 0) =>
        /\ conn.err = NoErr
        /\ conn.dev.client = disc.devices[conn.from].client

\* the service types whose text contains "WANIP", and the pairs of service
\* types in strictly increasing lexicographic order
WANIPTypes == { t \in ServiceTypes : Contains(Text(t), Text("WANIP")) }
Ascending == { st \in ServiceTypes \X ServiceTypes : StringLess(Text(st[1]), Text(st[2])) }

HasWANIP(dev) == ServiceType(dev.client) \in WANIPTypes

\* C7: in the list Discover returns, every device whose serviceType contains
\* "WANIP" stands before every device whose serviceType does not, and within
\* each of the two groups the serviceTypes are in non-decreasing
\* lexicographic order.
C7_Order ==
    disc.done =>
        \A i, j \in 1..Len(disc.devices) :
            i < j =>
                LET di == disc.devices[i]
                    dj == disc.devices[j]
                IN
                /\ HasWANIP(dj) => HasWANIP(di)
                /\ HasWANIP(di) = HasWANIP(dj) =>
                      <<ServiceType(dj.client), ServiceType(di.client)>> \notin Ascending

C7_Witness ==
    /\ disc.done /\ ssdp.locs = <<U1, U2>>
    /\ Len(net[U1].doc.devices) = 1
    /\ Len(net[U1].doc.devices[1].Services) = 2
    /\ net[U1].doc.devices[1].Services[1].ServiceType = WANPPPConnection1
    /\ net[U1].doc.devices[1].Services[2].ServiceType = WANIPConnection2
    /\ Len(disc.devices) = 3
    /\ ServiceType(disc.devices[1].client) = WANIPConnection1
    /\ Location(disc.devices[1].client) = U2
    /\ ServiceType(disc.devices[2].client) = WANIPConnection2
    /\ ServiceType(disc.devices[3].client) = WANPPPConnection1


\* C11: for every description document fetched successfully from a URL u,
\* the RootDevice that DeviceByURL returns has urlBase u when the document has
\* no URLBase (or an empty one), and the document's URLBase unchanged when it
\* has one; the rest of the document is returned as served.
C11_URLBase ==
    (conn.done /\ net[conn.url].net /\ net[conn.url].status = 200 /\ net[conn.url].xml) =>
        LET doc == net[conn.url].doc IN
        /\ doc.URLBase = "" => conn.root.URLBase = conn.url
        /\ doc.URLBase # "" => conn.root.URLBase = doc.URLBase
        /\ conn.root.devices = doc.devices
        /\ \A i \in 1..Len(conn.clients) : conn.clients[i].urlBase = conn.root.URLBase

C11_Witness ==
    /\ conn.done /\ conn.url = U1 /\ net[U1].net /\ net[U1].status = 200 /\ net[U1].xml
    /\ net[U1].doc.URLBase = ""
    /\ conn.root.URLBase = U1
    /\ Len(conn.clients) = 1


\* an operation that was called and whose context is cancelled returns
Returns(op) == (cx[op].cancelled /\ cx[op].pc # "idle") ~> (cx[op].pc = "done")

\* C12 as stated: once the context passed to Discover, to Connect or to a
\* SOAP action invocation is cancelled, the operation stops waiting on its
\* socket read or HTTP request and returns, at every suspension point of
\* each of the three operations.
C12_CancelReturns == Returns("dis") /\ Returns("con") /\ Returns("inv")


\* the streaming run holds nothing any more: the socket is not open, the
\* streams that were made are closed, and no producer is blocked on a send
Released ==
    /\ strm.sock # "open"
    /\ strm.dda # "none" => (strm.locsClosed /\ strm.devClosed > 0)
    /\ strm.ssdp # "put"
    /\ \A i \in 1..Len(strm.tasks) : strm.tasks[i].pc = "done"

\* C13 as stated: in every run of the first-result Discover, whatever it
\* returns and however many devices respond, eventually the SSDP socket is
\* closed, the locations stream and the devices stream are closed, and no
\* producer stays blocked on a send.
C13_Release == <>[]Released


RECURSIVE Reported(_, _)
\* the text of the last element called name among the fields a router sent,
\* "" when it sent none
Reported(fields, name) ==
    IF fields = <<>> THEN ""
    ELSE IF fields[Len(fields)][1] = name THEN fields[Len(fields)][2]
    ELSE Reported(SubSeq(fields, 1, Len(fields) - 1), name)

\* C14 as stated: IsForwarded returns true if and only if the router reports
\* a mapping that is enabled and whose internal client is this Device's
\* internal IP; a mapping to another host, a disabled or missing mapping, and
\* any error of the query all give false.
C14_IsForwarded ==
    (soapOut.done /\ soapOut.op = "IsForwarded") =>
        /\ IsErr(soapOut.err) => ~soapOut.result
        /\ ~IsErr(soapOut.err) =>
              (soapOut.result <=>
                  /\ Reported(soapIn.reply.fields, "NewEnabled") = "1"
                  /\ Reported(soapIn.reply.fields, "NewInternalClient") = internalIP)


Returned == strm.disc = "returned"

\* the three outcomes the claim gives the first-result Discover
ThreeOutcomes ==
    \/ strm.res = "device" /\ strm.delivered = 1 /\ strm.dev = strm.first
                           /\ strm.dev # NoDevice
    \/ strm.res = "none" /\ strm.devClosed > 0 /\ strm.delivered = 0
                         /\ strm.dev = NoDevice
    \/ strm.res = "ctx" /\ strm.cancelled /\ strm.dev = NoDevice

\* C15 as stated (its outcomes): what the first-result Discover returns is
\* the first Device delivered on the devices stream, or the "no UPnP-enabled
\* gateway found" error when the stream was closed without a Device, or the
\* context's error when the context was cancelled.
C15_Original == Returned => ThreeOutcomes

\* C15 amended: the first-result Discover always eventually returns, also
\* when its context is never cancelled, and its result is one of four
\* outcomes: the three above, or the error of DiscoverAll, when the socket
\* could not be opened or a probe could not be sent, in which case no stream
\* was made.
C15_Outcomes ==
    /\ <>Returned
    /\ [](Returned =>
            \/ ThreeOutcomes
            \/ /\ strm.res = "err" /\ strm.ssdp = "failed" /\ strm.dda = "none"
               /\ strm.dev = NoDevice /\ strm.delivered = 0)

C15_Witness ==
    /\ Returned /\ strm.res = "err" /\ strm.sent = 2 /\ ~strm.cancelled


\* SSDP returned an error, or doSSDP returned
SsdpOver == strm.ssdp \in {"done", "failed"}

\* C16: every SSDP discovery run terminates: whatever datagrams and read
\* errors it receives, without bound, a run that was started ends, and once
\* the wait window has passed the read loop exits.
C16_Terminates ==
    /\ (strm.ssdp # "idle") ~> SsdpOver
    /\ strm.expired ~> SsdpOver

C16_Witness ==
    /\ strm.expired /\ strm.ssdp = "done" /\ strm.sock = "closed"
    /\ strm.seen = {"uuid:A", U2}


\* one step of the read loop, as C17 describes it
ReadLoopStep ==
    ssdp.pc = "read" =>
        /\ ssdp'.err = NoErr
        /\ rx' = Append(rx, TempError) =>
              (ssdp'.locs = ssdp.locs /\ ssdp'.seen = ssdp.seen /\ ssdp'.pc = "read")
        /\ ssdp'.pc = "done" => (ssdp'.locs = ssdp.locs /\ rx' = rx /\ src' = src)

\* C17: after the probes were sent the read loop never returns an error: a
\* temporary read error leaves the locations and the seen set as they are and
\* the loop reads again; the error that ends the loop makes the run report
\* exactly the locations collected up to then, none included.
C17_ReadLoop == [][ReadLoopStep]_vars

C17_Witness ==
    /\ ssdp.pc = "done" /\ ssdp.err = NoErr
    /\ rx = <<TempError, Response(200, U1, "uuid:A"), TempError>>
    /\ ssdp.locs = <<U1>>

\* the step in which a datagram that is no valid response was received
DiscardStep ==
    (/\ Len(rx') = Len(rx) + 1
     /\ rx'[Len(rx')].kind = "datagram"
     /\ ~IsValid(rx'[Len(rx')])) =>
        /\ ssdp'.locs = ssdp.locs /\ ssdp'.seen = ssdp.seen /\ src' = src
        /\ ssdp'.pc = "read" /\ ssdp'.err = NoErr

\* every valid response received so far was processed: its key is in the
\* seen set and a location was reported for its key
AllProcessed ==
    \A j \in 1..Len(rx) :
        IsValid(rx[j]) =>
            /\ KeyOf(rx[j]) \in ssdp.seen
            /\ \E k \in 1..Len(src) :
                  /\ src[k] \in SameKey(j)
                  /\ ssdp.locs[k] = LocationString(rx[src[k]].location)

\* C18: a received datagram that does not parse as an HTTP response with
\* status 200, or that has no LOCATION header, changes neither the reported
\* locations nor the deduplication set and does not end the run; every valid
\* response received after it (as before it) is processed and reported.
C18_Discard == [][DiscardStep]_vars /\ []AllProcessed

C18_Witness ==
    /\ rx = <<Garbage, Response(404, U1, "uuid:A"), Response(200, U1, "uuid:A")>>
    /\ ssdp.locs = <<U1>> /\ ssdp.seen = {"uuid:A"}


\* C19: in streaming DiscoverAll one resolution task is started per location
\* received from the locations stream; the devices stream is closed at most
\* once, and only after the locations stream was closed and every started
\* task has finished, so that no task is left to send a Device on the closed
\* stream.
C19_Join ==
    /\ Len(strm.tasks) = Cardinality(strm.seen) - (IF strm.ssdp = "put" THEN 1 ELSE 0)
    /\ strm.devClosed <= 1
    /\ strm.devClosed = 1 =>
          /\ strm.locsClosed /\ strm.dda = "done"
          /\ \A i \in 1..Len(strm.tasks) : strm.tasks[i].pc = "done"
    /\ strm.dda = "done" => strm.devClosed = 1

C19_Witness ==
    /\ strm.devClosed = 1 /\ Len(strm.tasks) = 2
    /\ strm.res = "device" /\ strm.tasks[2].out = <<>> /\ strm.tasks[1].out = <<>>
    /\ net[U1] = Description(TwoServices)


\* the description of location l was fetched and parsed
Resolved(l) == net[l].net /\ net[l].status = 200 /\ net[l].xml

\* the URL base of the endpoints of location l
BaseOf(l) == IF net[l].doc.URLBase = "" THEN l ELSE net[l].doc.URLBase

\* the URLs whose host is on the network of a local interface (192.168.1.0/24)
OnLocalNet(u) == u \in {U1, B1, U2}

\* how many endpoints location l contributes
Yield(l) ==
    IF Resolved(l) /\ OnLocalNet(BaseOf(l)) THEN Cardinality(WANSlots(net[l].doc)) ELSE 0

RECURSIVE YieldSum(_, _)
\* how many endpoints with URL base b the locations contribute together
YieldSum(locs, b) ==
    IF locs = <<>> THEN 0
    ELSE (IF BaseOf(Head(locs)) = b THEN Yield(Head(locs)) ELSE 0)
            + YieldSum(Tail(locs), b)

\* C20: Discover is best-effort per location: a location whose description
\* cannot be fetched or parsed, and an endpoint whose host is on no local
\* network, are dropped alone; Discover returns no error for them and
\* returns every endpoint resolved from the other locations.
C20_BestEffort ==
    (disc.done /\ ~IsErr(ssdp.err)) =>
        /\ disc.err = NoErr
        /\ \A b \in URLs :
              Cardinality({ i \in 1..Len(disc.devices) :
                              disc.devices[i].client.urlBase = b })
                 = YieldSum(ssdp.locs, b)

C20_Witness ==
    /\ disc.done /\ disc.err = NoErr
    /\ ssdp.locs = <<U1, U3, U2>>
    /\ net[U1] = ConnRefused
    /\ Resolved(U2) /\ Resolved(U3)
    /\ Len(disc.devices) = 1
    /\ Location(disc.devices[1].client) = U2


\* the HTTP response of the invocation decoded as a SOAP envelope
EnvelopeParsed(reply) == reply.net /\ reply.xml /\ reply.ns = SoapNS

\* C21: a response envelope that holds a Fault makes the invocation return an
\* error whatever the expected response is, nil included: the UPnP error
\* (description and code) when the Fault has the UPnPError detail, otherwise
\* an error carrying the fault string; no response field is filled.  With a
\* nil expected response no output field is decoded, and the invocation
\* succeeds exactly when the envelope parsed and holds no Fault.
C21_FaultNil ==
    soapOut.done =>
        LET reply == soapIn.reply
            f == reply.fault
        IN
        /\ (EnvelopeParsed(reply) /\ f.present) =>
                /\ IsErr(soapOut.err)
                /\ soapOut.resp = ZeroResp
                /\ (f.detail /\ f.upnp) =>
                       soapOut.err = <<"UPnP error: ", f.desc, " (error code ", f.code, ")">>
                /\ ~(f.detail /\ f.upnp) =>
                       soapOut.err = <<"SOAP fault: ", f.faultstring>>
        /\ soapIn.respType = "nil" =>
                /\ soapOut.resp = ZeroResp
                /\ (soapOut.err = NoErr) <=> (EnvelopeParsed(reply) /\ ~f.present)

C21_Witness ==
    /\ soapOut.done /\ soapIn.respType = "nil"
    /\ EnvelopeParsed(soapIn.reply) /\ soapIn.reply.status = 200
    /\ soapIn.reply.fault = SoapFault("NoSuchEntryInArray")
    /\ soapIn.reply.hasAction /\ Len(soapIn.reply.fields) = MaxFields
    /\ soapOut.err = <<"SOAP fault: ", "NoSuchEntryInArray">>


\* C22: the streaming SSDP() sends the probe numSends times before any
\* response is read, and leaves no open socket behind: once a send has failed
\* SSDP has returned an error, no reader runs, no location is reported, and
\* the UDP socket it opened is closed.
C22_SendFailure ==
    /\ strm.ssdp \in {"read", "put", "done"} => strm.sent = numSends
    /\ strm.sent < numSends => (strm.seen = {} /\ strm.tasks = <<>>)
    /\ strm.ssdp = "failed" =>
          /\ strm.res = "err"
          /\ strm.dda = "none" /\ ~strm.locsClosed
          /\ strm.seen = {} /\ strm.loc = "" /\ strm.tasks = <<>>
          /\ strm.sock # "open"
    /\ strm.ssdp = "done" => strm.sock = "closed"

=============================================================================
